---- MODULE Spec2Model ----
(***************************************************************************)
(* Secure aggregation by pairwise additive masking.                        *)
(*                                                                         *)
(* src/src/client.rs : the client node (warp handlers mask_by_adding,      *)
(*                     share_val, interact_with_others behind one          *)
(*                     tokio Mutex<Client>)                                *)
(* src/src/server.rs : the aggregator node (handlers initialize and        *)
(*                     aggregate_val behind one tokio Mutex<Server>)       *)
(*                                                                         *)
(* Every handler is a task; an action of this module is the code one task  *)
(* runs between two of its .await points.  A request in flight is the      *)
(* caller standing at its .await; the callee's handler runs when the       *)
(* callee's mutex is free.                                                 *)
(***************************************************************************)
EXTENDS Integers, Sequences, FiniteSets, TLC

\* ------------------------------------------------------------------ bounds
\* Clients listen on ports 1..NumClients (3000+N in the source).
NumClients == 3
\* Longest port_list an /initialize request carries.
MaxRoster == 3
\* Number of /initialize requests and of /aggregate requests in one behaviour.
MaxInit == 1
MaxAgg == 1

Ports == 1..NumClients

\* --------------------------------------------------- Wrapping<u32> values
\* A u32 is the pair <<high 16 bits, low 16 bits>>.
Half == 2^16

U32 == (0..(Half - 1)) \X (0..(Half - 1))

Small(n) == <<0, n>>

Zero == Small(0)

\* u32::MAX
MaxU32 == <<Half - 1, Half - 1>>

\* Wrapping<u32> + Wrapping<u32> with a saturating addition instead
SaturatingAdd(a, b) ==
    LET lo == a[2] + b[2]
        hi == a[1] + b[1] + (lo \div Half)
    IN  IF hi >= Half THEN MaxU32 ELSE <<hi, lo % Half>>

\* Wrapping<u32> + Wrapping<u32>
WrappingAdd(a, b) ==
    LET lo == a[2] + b[2]
        hi == a[1] + b[1] + (lo \div Half)
    IN  <<hi % Half, lo % Half>>

\* Wrapping<u32> - Wrapping<u32> with a saturating subtraction instead
SaturatingSub(a, b) ==
    LET lo == a[2] - b[2]
        borrow == IF lo < 0 THEN 1 ELSE 0
        hi == a[1] - b[1] - borrow
    IN  IF hi < 0 THEN Zero ELSE <<hi, lo + borrow * Half>>

\* Wrapping<u32> - Wrapping<u32>
WrappingSub(a, b) ==
    LET lo == a[2] - b[2]
        borrow == IF lo < 0 THEN 1 ELSE 0
        hi == a[1] - b[1] - borrow
    IN  <<(hi + Half) % Half, lo + borrow * Half>>

\* the decimal digits of v, most significant first
Digits[v \in U32] ==
    LET qh == v[1] \div 10
        t  == (v[1] % 10) * Half + v[2]
        q  == <<qh, t \div 10>>
        d  == t % 10
    IN  IF q = Zero THEN <<d>> ELSE Append(Digits[q], d)

\* format!("{}", v)
Format(v) == Digits[v]

\* the number acc continued by the digits s: <<TRUE, v>>, or <<FALSE, Zero>>
\* for a number above u32::MAX
FromDigits[acc \in U32, s \in Seq(0..9)] ==
    IF s = <<>> THEN <<TRUE, acc>>
    ELSE LET lo == acc[2] * 10 + Head(s)
             hi == acc[1] * 10 + (lo \div Half)
         IN  IF hi >= Half THEN <<FALSE, Zero>>
             ELSE FromDigits[<<hi, lo % Half>>, Tail(s)]

\* the digits of s read after the number acc
ParseFrom(acc, s) == FromDigits[acc, s]

\* str::parse::<i32>() instead: nothing above i32::MAX parses
ParseI32(s) ==
    LET r == IF s = <<>> THEN <<FALSE, Zero>> ELSE ParseFrom(Zero, s)
    IN  IF r[1] /\ r[2][1] < Half \div 2 THEN r ELSE <<FALSE, Zero>>

\* str::parse::<u32>(): <<TRUE, v>>, or <<FALSE, Zero>> for the empty string
\* and for a number above u32::MAX
Parse(s) == IF s = <<>> THEN <<FALSE, Zero>> ELSE ParseFrom(Zero, s)

\* ------------------------------------------------------------ input sets
\* The values a client starts with: rand::thread_rng().gen_range(5..12)
OrigVals == {Small(5), Small(11)}

\* The masks drawn in a behaviour: rand::thread_rng().gen() is any u32; 7 and
\* u32::MAX make the subtraction underflow and the addition overflow.
MaskVals == {Small(7), MaxU32}

RECURSIVE SeqsUpTo(_, _)
SeqsUpTo(S, n) ==
    IF n = 0 THEN {<<>>}
    ELSE LET shorter == SeqsUpTo(S, n - 1)
         IN  shorter \cup {Append(s, x) : s \in {t \in shorter : Len(t) = n - 1}, x \in S}

\* The bodies of PUT /initialize: any port_list, any num_collaborators
Requests ==
    {[port_list |-> pl, num_collaborators |-> n] :
        pl \in SeqsUpTo(Ports, MaxRoster), n \in 0..(MaxRoster + 1)}

Elems(s) == {s[k] : k \in 1..Len(s)}

Distinct(s) == Cardinality(Elems(s)) = Len(s)

\* Vec::remove(i) replaced by nothing: the list keeps the client
NotRemoved(s, i) == s

\* Vec::remove(i), i counted from 0
Remove(s, i) == SubSeq(s, 1, i) \o SubSeq(s, i + 2, Len(s))

\* Vec::insert replaced by Vec::push: the client goes back at the end
InsertAtEnd(s, i, x) == Append(s, x)

\* Vec::insert(i, x), i counted from 0
Insert(s, i, x) == SubSeq(s, 1, i) \o <<x>> \o SubSeq(s, i + 1, Len(s))

RECURSIVE SumOver(_, _)
\* the wrapping sum of f over the ports of the sequence s
SumOver(f, s) == IF s = <<>> THEN Zero ELSE WrappingAdd(f[Head(s)], SumOver(f, Tail(s)))

\* ------------------------------------------------------------------ state
VARIABLES
    up,                 \* the ports on which a client process is listening
    value,              \* Client.value of each client
    masked_value,       \* Client.masked_value of each client
    lock,               \* who holds each client's Mutex<Client>
    interact,           \* each client's interact_with_others handler
    client_ports,       \* Server.client_ports
    server_lock,        \* who holds the Mutex<Server>
    init,               \* the server's initialize handler
    agg,                \* the server's aggregate_val handler
    initialize_replies, \* what the callers of PUT /initialize got back, in order
    aggregate_replies,  \* what the callers of GET /aggregate got back, in order
    mask_applied,       \* history: the client's masked_value has had a mask applied
    undelivered,        \* history: the sum of the masks the client subtracted and
                        \* whose POST failed
    posts,              \* the POST /maskbyadding requests of callers that are no
                        \* client's round, each pending or answered
    reads               \* history: per client, what the last GET /sharevalue of a
                        \* caller that is not the aggregator returned, if the
                        \* client's masked_value was not assigned since

vars == <<up, value, masked_value, lock, interact, client_ports, server_lock,
          init, agg, initialize_replies, aggregate_replies, mask_applied,
          undelivered, posts, reads>>

clientVars == <<masked_value, lock, interact, mask_applied, undelivered>>

serverVars == <<client_ports, server_lock, init, agg, initialize_replies, aggregate_replies>>

outsideVars == <<posts, reads>>

EmptyList == [port_list |-> <<>>, num_collaborators |-> 0]

IdleInteract ==
    [pc |-> "idle", port_list |-> <<>>, curr_collaborator |-> 0,
     masking_val |-> Zero, sent |-> <<>>, res |-> "none", before |-> <<Zero, Zero>>,
     direct |-> FALSE]

IdleInit ==
    [pc |-> "idle", clients_list |-> EmptyList, collaborator_list |-> EmptyList,
     i |-> 0, n |-> 0, curr_client |-> 0, res |-> "none"]

IdleAgg ==
    [pc |-> "idle", i |-> 0, aggregate_val |-> Zero, res |-> <<"none", <<>>>>, after |-> 0,
     during |-> FALSE]

\* models::new_Client (masked_value starts as value) and models::new_Server
Init ==
    /\ up \in SUBSET Ports
    /\ value \in [Ports -> OrigVals]
    /\ masked_value = value
    /\ lock = [p \in Ports |-> "free"]
    /\ interact = [p \in Ports |-> IdleInteract]
    /\ client_ports = <<>>
    /\ server_lock = "free"
    /\ init = IdleInit
    /\ agg = IdleAgg
    /\ initialize_replies = <<>>
    /\ aggregate_replies = <<>>
    /\ mask_applied = [p \in Ports |-> FALSE]
    /\ undelivered = [p \in Ports |-> Zero]
    /\ posts = <<>>
    /\ reads = [p \in Ports |-> <<>>]

\* ------------------------------------------------- client: /maskbyadding
\* client.masked_value + Wrapping(masking_val), as a saturating addition
AddedSaturating(masked, masking_val) == SaturatingAdd(masked, masking_val)

\* client.masked_value + Wrapping(masking_val)
Added(masked, masking_val) == WrappingAdd(masked, masking_val)

\* handlers::mask_by_adding on client q, for the POST client p has in flight:
\* waits for q's mutex, adds the mask parsed from the path, answers 200.  A
\* path that is no u32 matches no route: the answer is a 404, which send()
\* returns as Ok all the same.
mask_by_adding(p, q) ==
    /\ interact[p].pc = "await_push"
    /\ interact[p].curr_collaborator = q
    /\ q \in up
    /\ lock[q] = "free"
    /\ LET masking_val == Parse(interact[p].sent)
       IN  IF masking_val[1]
           THEN /\ masked_value' = [masked_value EXCEPT
                                      ![q] = Added(masked_value[q], masking_val[2])]
                /\ mask_applied' = [mask_applied EXCEPT ![q] = TRUE]
                /\ reads' = [reads EXCEPT ![q] = <<>>]
           ELSE UNCHANGED <<masked_value, mask_applied, reads>>
    /\ interact' = [interact EXCEPT ![p].pc = "got_push", ![p].res = "Ok"]
    /\ UNCHANGED <<up, value, posts, lock, undelivered, serverVars>>

\* the POST of client p finds nobody listening: send() returns Err
PushFails(p) ==
    /\ interact[p].pc = "await_push"
    /\ interact[p].curr_collaborator \notin up
    /\ interact' = [interact EXCEPT ![p].pc = "got_push", ![p].res = "Err"]
    /\ undelivered' = [undelivered EXCEPT
                          ![p] = WrappingAdd(undelivered[p], interact[p].masking_val)]
    /\ UNCHANGED <<up, value, outsideVars, masked_value, lock, mask_applied, serverVars>>

\* ------------------------------------------------------ client: /interact
\* client.masked_value - masking_val, as a saturating subtraction
SubtractedSaturating(masked, masking_val) == SaturatingSub(masked, masking_val)

\* client.masked_value - masking_val
Subtracted(masked, masking_val) == WrappingSub(masked, masking_val)

\* the masked_value after the .await of the POST, had the handler undone
\* the subtraction of a mask whose POST failed
RolledBack(masked, masking_val, res) ==
    IF res = "Err" THEN WrappingAdd(masked, masking_val) ELSE masked

\* the masked_value after the .await of the POST: res is never looked at
AfterPush(masked, masking_val, res) == masked

\* the peer the for loop takes next, had it taken them from the back
LastPeer(rest) == rest[Len(rest)]

\* the peer the for loop over port_list takes next
NextPeer(rest) == Head(rest)

\* The for loop of handlers::interact_with_others of client p, from its head
\* with the peers `rest` left and masked_value `masked`, up to the next
\* .await or to the reply.  The mutex taken before the loop is held until
\* the handler returns.  The reply goes to the server's initialize handler, or
\* to the caller of a PUT /interact sent by somebody else (direct).
InteractLoop(p, rest, masked) ==
    IF rest = <<>>
    THEN /\ interact' = [interact EXCEPT ![p] = IdleInteract]
         /\ lock' = [lock EXCEPT ![p] = "free"]
         /\ init' = IF interact[p].direct THEN init
                    ELSE [init EXCEPT !.pc = "got_interact", !.res = "Ok"]
         /\ masked_value' = [masked_value EXCEPT ![p] = masked]
         /\ UNCHANGED <<mask_applied, reads>>
    ELSE \E masking_val \in MaskVals :
         /\ masked_value' = [masked_value EXCEPT
                               ![p] = Subtracted(masked, masking_val)]
         /\ mask_applied' = [mask_applied EXCEPT ![p] = TRUE]
         /\ reads' = [reads EXCEPT ![p] = <<>>]
         /\ interact' = [interact EXCEPT ![p] =
               [pc |-> "await_push", port_list |-> Tail(rest),
                curr_collaborator |-> NextPeer(rest), masking_val |-> masking_val,
                sent |-> Format(masking_val), res |-> "none",
                before |-> <<masked, masked_value[NextPeer(rest)]>>,
                direct |-> interact[p].direct]]
         /\ lock' = [lock EXCEPT ![p] = "interact"]
         /\ UNCHANGED init

\* client p receives the PUT /interact of the server and takes its mutex
InteractBegin(p) ==
    /\ init.pc = "await_interact"
    /\ init.curr_client = p
    /\ p \in up
    /\ interact[p].pc = "idle"
    /\ lock[p] = "free"
    /\ InteractLoop(p, init.collaborator_list.port_list, masked_value[p])
    /\ UNCHANGED <<up, value, posts, undelivered, client_ports, server_lock, agg,
                   initialize_replies, aggregate_replies>>

\* client p gets the result of its POST (which it ignores) and goes on
InteractResume(p) ==
    /\ interact[p].pc = "got_push"
    /\ InteractLoop(p, interact[p].port_list,
                    AfterPush(masked_value[p], interact[p].masking_val, interact[p].res))
    /\ UNCHANGED <<up, value, posts, undelivered, client_ports, server_lock, agg,
                   initialize_replies, aggregate_replies>>

\* ---------------------------------------------------- server: /initialize
\* The for loop of handlers::initialize from its head, with loop variable i
\* and list cl, up to the next .await, to the reply or to the panic of
\* Vec::remove.  The range 0..num_collaborators was computed once, as init.n.
InitializeLoop(h, i, cl) ==
    IF i < h.n
    THEN IF i >= Len(cl.port_list)
         THEN \* port_list.remove(i) panics: the task unwinds and drops the guard
              /\ init' = IdleInit
              /\ server_lock' = "free"
              /\ initialize_replies' = Append(initialize_replies,
                    [req |-> h.clients_list, status |-> "panic", body |-> <<>>])
         ELSE /\ init' = [h EXCEPT
                    !.pc = "await_interact",
                    !.i = i,
                    !.curr_client = cl.port_list[i + 1],
                    !.collaborator_list =
                        [port_list |-> Remove(cl.port_list, i),
                         num_collaborators |-> cl.num_collaborators - 1],
                    !.res = "none"]
              /\ server_lock' = "initialize"
              /\ UNCHANGED initialize_replies
    ELSE /\ init' = IdleInit
         /\ server_lock' = "free"
         /\ initialize_replies' = Append(initialize_replies,
               [req |-> h.clients_list, status |-> "ok", body |-> cl.port_list])

\* PUT /initialize arrives with the body clients_list
InitializeRequest(clients_list) ==
    /\ init.pc = "idle"
    /\ Len(initialize_replies) < MaxInit
    /\ init' = [IdleInit EXCEPT !.pc = "lock", !.clients_list = clients_list]
    /\ UNCHANGED <<up, value, outsideVars, clientVars, client_ports, server_lock, agg,
                   initialize_replies, aggregate_replies>>

\* handlers::initialize takes the server's mutex, stores the roster and
\* starts the loop
InitializeStart ==
    /\ init.pc = "lock"
    /\ server_lock = "free"
    /\ client_ports' = init.clients_list.port_list
    /\ LET h == [init EXCEPT !.n = init.clients_list.num_collaborators]
       IN  InitializeLoop(h, 0, init.clients_list)
    /\ UNCHANGED <<up, value, outsideVars, clientVars, agg, aggregate_replies>>

\* the PUT /interact finds nobody listening: send() returns Err
InteractFails ==
    /\ init.pc = "await_interact"
    /\ init.curr_client \notin up
    /\ init' = [init EXCEPT !.pc = "got_interact", !.res = "Err"]
    /\ UNCHANGED <<up, value, outsideVars, clientVars, client_ports, server_lock, agg,
                   initialize_replies, aggregate_replies>>

\* handlers::initialize gets the result of its PUT (which it ignores), puts
\* curr_client back and goes on
InitializeResume ==
    /\ init.pc = "got_interact"
    /\ LET cl == [port_list |->
                      Insert(init.collaborator_list.port_list, init.i, init.curr_client),
                  num_collaborators |-> init.collaborator_list.num_collaborators + 1]
       IN  InitializeLoop(init, init.i + 1, cl)
    /\ UNCHANGED <<up, value, outsideVars, clientVars, client_ports, agg, aggregate_replies>>

\* ----------------------------------------------------- client: /sharevalue
\* the masked_value after share_val, had reading it cleared it
ClearedByShare(masked) == Zero

\* the masked_value after share_val: the handler only formats it
AfterShare(masked) == masked

\* handlers::share_val on client c, for the GET the server has in flight:
\* waits for c's mutex and answers with the decimal masked_value
share_val(c) ==
    /\ agg.pc = "await_share"
    /\ client_ports[agg.i + 1] = c
    /\ c \in up
    /\ lock[c] = "free"
    /\ agg' = [agg EXCEPT !.pc = "got_share", !.res = <<"Ok", Format(masked_value[c])>>]
    /\ masked_value' = [masked_value EXCEPT ![c] = AfterShare(masked_value[c])]
    /\ UNCHANGED <<up, value, outsideVars, lock, interact, mask_applied, undelivered,
                   client_ports, server_lock, init, initialize_replies, aggregate_replies>>

\* the GET /sharevalue finds nobody listening: send() returns Err
ShareFails ==
    /\ agg.pc = "await_share"
    /\ client_ports[agg.i + 1] \notin up
    /\ agg' = [agg EXCEPT !.pc = "got_share", !.res = <<"Err", <<>>>>]
    /\ UNCHANGED <<up, value, outsideVars, clientVars, client_ports, server_lock, init,
                   initialize_replies, aggregate_replies>>

\* ----------------------------------------------------- server: /aggregate
\* The for loop of handlers::aggregate_val from its head, with loop variable
\* i and the sum so far, up to the next .await or to the reply.
AggregateLoop(h, i, aggregate_val) ==
    IF i < Len(client_ports)
    THEN /\ agg' = [h EXCEPT !.pc = "await_share", !.i = i,
                             !.aggregate_val = aggregate_val, !.res = <<"none", <<>>>>]
         /\ server_lock' = "aggregate"
         /\ UNCHANGED aggregate_replies
    ELSE /\ agg' = IdleAgg
         /\ server_lock' = "free"
         /\ aggregate_replies' = Append(aggregate_replies,
               [status |-> "ok", body |-> Format(aggregate_val), roster |-> client_ports,
                after |-> h.after, during |-> h.during,
                rounds |-> Len(initialize_replies)])

\* GET /aggregate arrives
AggregateRequest ==
    /\ agg.pc = "idle"
    /\ Len(aggregate_replies) < MaxAgg
    /\ agg' = [IdleAgg EXCEPT !.pc = "lock", !.after = Len(initialize_replies),
                             !.during = (server_lock = "initialize")]
    /\ UNCHANGED <<up, value, outsideVars, clientVars, client_ports, server_lock, init,
                   initialize_replies, aggregate_replies>>

\* handlers::aggregate_val, had it started the loop without the server's mutex
AggregateStartUnlocked ==
    /\ agg.pc = "lock"
    /\ AggregateLoop(agg, 0, Zero)
    /\ UNCHANGED <<up, value, outsideVars, clientVars, client_ports, init, initialize_replies>>

\* handlers::aggregate_val takes the server's mutex and starts the loop
AggregateStart ==
    /\ agg.pc = "lock"
    /\ server_lock = "free"
    /\ AggregateLoop(agg, 0, Zero)
    /\ UNCHANGED <<up, value, outsideVars, clientVars, client_ports, init, initialize_replies>>

\* res.unwrap()...unwrap(), had it been unwrap_or(0): a failed read counts 0
UnwrappedOrZero(res) ==
    IF res[1] = "Err" THEN <<TRUE, Zero>> ELSE Parse(res[2])

\* res.unwrap().text().await.unwrap().parse::<u32>().unwrap(): <<TRUE, v>>, or
\* <<FALSE, Zero>> where one of the unwraps panics
Unwrapped(res) ==
    IF res[1] = "Err" THEN <<FALSE, Zero>> ELSE Parse(res[2])

\* handlers::aggregate_val unwraps the response, its text and the parsed u32
\* (each unwrap panics on an Err), adds the value and goes on
AggregateResume ==
    /\ agg.pc = "got_share"
    /\ LET masked_val == Unwrapped(agg.res)
       IN  IF ~masked_val[1]
           THEN /\ agg' = IdleAgg
                /\ server_lock' = "free"
                /\ aggregate_replies' = Append(aggregate_replies,
                      [status |-> "panic", body |-> <<>>, roster |-> client_ports,
                       after |-> agg.after, during |-> agg.during,
                       rounds |-> Len(initialize_replies)])
           ELSE AggregateLoop(agg, agg.i + 1, WrappingAdd(agg.aggregate_val, masked_val[2]))
    /\ UNCHANGED <<up, value, outsideVars, clientVars, client_ports, init, initialize_replies>>

\* ------------------------------------------------------------ specification
Next ==
    \/ \E clients_list \in Requests : InitializeRequest(clients_list)
    \/ InitializeStart
    \/ InteractFails
    \/ InitializeResume
    \/ \E p \in Ports : InteractBegin(p)
    \/ \E p \in Ports : InteractResume(p)
    \/ \E p \in Ports : PushFails(p)
    \/ \E p \in Ports, q \in Ports : mask_by_adding(p, q)
    \/ AggregateRequest
    \/ AggregateStart
    \/ AggregateResume
    \/ \E c \in Ports : share_val(c)
    \/ ShareFails

Spec == Init /\ [][Next]_vars

\* ------------------------------------------------------------------ claims
\* a completed initializeRound that drove every client of a roster of
\* distinct, reachable clients (num_collaborators = the roster's length)
FullRound(r) ==
    /\ r.status = "ok"
    /\ r.req.num_collaborators = Len(r.req.port_list)
    /\ Distinct(r.req.port_list)
    /\ Elems(r.req.port_list) \subseteq up

\* the first n initializeRound calls were full rounds, none over a client
\* outside the roster of the n-th
FullRoundsOnly(n) ==
    /\ n >= 1
    /\ n <= Len(initialize_replies)
    /\ \A k \in 1..n :
          /\ FullRound(initialize_replies[k])
          /\ Elems(initialize_replies[k].req.port_list)
                \subseteq Elems(initialize_replies[n].req.port_list)

RoundCompleted ==
    /\ init.pc \in {"idle", "lock"}
    /\ FullRoundsOnly(Len(initialize_replies))

\* C1: once initializeRound has completed over a roster of distinct clients
\* with every mask push delivered, the wrapping sum of the roster clients'
\* masked_value equals the wrapping sum of their value.
C1_ConservationAfterFullRound ==
    RoundCompleted =>
        SumOver(masked_value, client_ports) = SumOver(value, client_ports)

\* C1 witness: a full round over three clients is complete and has changed
\* a client's masked_value.
C1_Witness ==
    /\ RoundCompleted
    /\ Len(client_ports) = 3
    /\ \E p \in Elems(client_ports) : masked_value[p] # value[p]

\* C2: aggregate() requested after a full round has completed, and answered
\* before any later initializeRound completes, returns the decimal wrapping
\* sum of the roster clients' value.
C2_AggregateReturnsSum ==
    \A k \in 1..Len(aggregate_replies) :
        LET r == aggregate_replies[k]
        IN  (r.rounds = r.after /\ FullRoundsOnly(r.after)) =>
                /\ r.status = "ok"
                /\ r.roster = initialize_replies[r.after].req.port_list
                /\ r.body = Format(SumOver(value, r.roster))

\* C2 witness: aggregate() has answered after a full round over three clients
\* that left some client's masked_value different from its value.
C2_Witness ==
    \E k \in 1..Len(aggregate_replies) :
        LET r == aggregate_replies[k]
        IN  /\ r.rounds = r.after
            /\ FullRoundsOnly(r.after)
            /\ Len(r.roster) = 3
            /\ \E p \in Elems(r.roster) : masked_value[p] # value[p]

\* C3: when a step of an interaction round from client p to a distinct peer
\* has completed (p subtracted the mask, the peer added it), the wrapping sum
\* of the two masked_values is what it was before the step.
C3_StepZeroSum ==
    \A p \in Ports :
        (interact[p].pc = "got_push" /\ interact[p].res = "Ok") =>
            /\ interact[p].curr_collaborator # p
            /\ WrappingAdd(masked_value[p], masked_value[interact[p].curr_collaborator])
                 = WrappingAdd(interact[p].before[1], interact[p].before[2])

\* C3 witness: a completed step whose mask is u32::MAX, so that the
\* subtraction underflowed and the addition overflowed.
C3_Witness ==
    \E p \in Ports :
        /\ interact[p].pc = "got_push"
        /\ interact[p].res = "Ok"
        /\ interact[p].masking_val = MaxU32
        /\ masked_value[p] = WrappingAdd(interact[p].before[1], Small(1))

\* the ports of s on which a client is listening, in order
Reachable(s) == SelectSeq(s, LAMBDA c : c \in up)

\* the one initializeRound served so far was over three distinct clients,
\* num_collaborators = 3, exactly one of them unreachable, and has finished
PartialRoundDone ==
    /\ Len(initialize_replies) = 1
    /\ init.pc \in {"idle", "lock"}
    /\ LET r == initialize_replies[1]
       IN  /\ Len(r.req.port_list) = 3
           /\ Distinct(r.req.port_list)
           /\ r.req.num_collaborators = 3
           /\ Cardinality(Elems(r.req.port_list) \ up) = 1

\* C4 as claimed: after a round over A, B, C with C unreachable, the wrapping
\* sum of A's and B's masked_value equals the wrapping sum of their value.
C4_PartialFailureKeepsSum ==
    PartialRoundDone =>
        SumOver(masked_value, Reachable(client_ports))
            = SumOver(value, Reachable(client_ports))

\* C4 amended: after that round C's masked_value is still its value, A and B
\* each have subtracted one mask whose push to C failed, and the wrapping sum
\* of A's and B's masked_value equals the wrapping sum of their value minus
\* those two undelivered masks.
C4_PartialFailureLosesUndelivered ==
    PartialRoundDone =>
        /\ initialize_replies[1].status = "ok"
        /\ \A c \in Elems(client_ports) \ up : masked_value[c] = value[c]
        /\ \A a \in Elems(client_ports) \cap up : undelivered[a] \in MaskVals
        /\ SumOver(masked_value, Reachable(client_ports))
             = WrappingSub(SumOver(value, Reachable(client_ports)),
                           SumOver(undelivered, Reachable(client_ports)))

\* C4 witness: such a round has finished and the sum over A and B is off.
C4_Witness ==
    /\ PartialRoundDone
    /\ SumOver(undelivered, Reachable(client_ports)) # Zero
    /\ SumOver(masked_value, Reachable(client_ports))
         # SumOver(value, Reachable(client_ports))

\* C5 as claimed: every value the aggregator reads with shareValue during
\* aggregate() comes from a client whose masked_value has had a mask applied.
C5_NeverReadsUnmasked ==
    (agg.pc = "got_share" /\ agg.res[1] = "Ok") =>
        mask_applied[client_ports[agg.i + 1]]

\* C6 as claimed: an interaction round in which a mask push failed does not
\* answer its caller with success, and initializeRound does not answer with
\* a success listing when a client of the (well-formed) roster was unreachable.
C6_FailuresReported ==
    /\ (init.pc = "got_interact" /\ init.res = "Ok") =>
            Elems(init.collaborator_list.port_list) \subseteq up
    /\ \A k \in 1..Len(initialize_replies) :
          LET r == initialize_replies[k]
          IN  (r.status = "ok" /\ r.req.num_collaborators = Len(r.req.port_list)) =>
                  Elems(r.req.port_list) \subseteq up

\* C7: once the push of a mask has failed, the sender's masked_value is the
\* value before the step minus the mask, and the handler's next step either
\* leaves it so (the round ends) or subtracts the next mask from it.
C7_NoRollback ==
    [][\A p \in Ports :
          (interact[p].pc = "got_push" /\ interact[p].res = "Err") =>
              /\ masked_value[p] = WrappingSub(interact[p].before[1], interact[p].masking_val)
              /\ \/ masked_value'[p] = masked_value[p]
                 \/ /\ interact'[p].pc = "await_push"
                    /\ masked_value'[p] = WrappingSub(masked_value[p], interact'[p].masking_val)]_vars

\* C7 witness: a round has ended after its last push failed, the subtraction
\* still in the sender's masked_value.
C7_Witness ==
    \E p \in Ports :
        /\ init.pc = "got_interact"
        /\ init.curr_client = p
        /\ init.res = "Ok"
        /\ init.collaborator_list.port_list # <<>>
        /\ Elems(init.collaborator_list.port_list) \cap up = {}
        /\ undelivered[p] # Zero
        /\ masked_value[p] = WrappingSub(value[p], undelivered[p])

\* C8 as claimed: for any roster accepted by initializeRound (count equal to
\* its length, ids possibly repeated), the peer list sent to a client does
\* not contain that client, and no client pushes a mask to itself.
C8_NoSelfMasking ==
    (init.pc # "idle" /\ init.clients_list.num_collaborators = Len(init.clients_list.port_list)) =>
        /\ init.pc = "await_interact" =>
               init.curr_client \notin Elems(init.collaborator_list.port_list)
        /\ \A p \in Ports :
               interact[p].pc = "await_push" => interact[p].curr_collaborator # p

\* the roster stored when the request now being handled arrived
RosterBefore ==
    IF initialize_replies = <<>> THEN <<>>
    ELSE initialize_replies[Len(initialize_replies)].req.port_list

Mismatch(clients_list) == clients_list.num_collaborators # Len(clients_list.port_list)

\* C9 as claimed: a request whose count differs from the length of peers
\* leaves the stored roster unchanged, drives no client, does not crash the
\* handler and is answered with a client error.
C9_MismatchRejected ==
    /\ (init.pc # "idle" /\ Mismatch(init.clients_list)) =>
          /\ client_ports = RosterBefore
          /\ init.pc \notin {"await_interact", "got_interact"}
    /\ \A k \in 1..Len(initialize_replies) :
          Mismatch(initialize_replies[k].req) =>
              initialize_replies[k].status = "client_error"

\* C10 as claimed: a client with a mask push in flight does not hold its own
\* masked_value lock.
C10_LockNotHeldAcrossPush ==
    \A p \in Ports : interact[p].pc = "await_push" => lock[p] = "free"

\* all the clients, in port order
AllClients == [k \in 1..NumClients |-> k]

\* the mask client p has subtracted and its peer has not added yet
InFlight ==
    [p \in Ports |-> IF interact[p].pc = "await_push" THEN interact[p].masking_val ELSE Zero]

\* C11 as claimed: under a reliable network, in every reachable state (also
\* in the middle of an interaction round) the wrapping sum of all clients'
\* masked_value equals the wrapping sum of all clients' value.
C11_ConservationAlways ==
    up = Ports =>
        SumOver(masked_value, AllClients) = SumOver(value, AllClients)

\* C11 amended: under a reliable network, in every reachable state the
\* wrapping sum of all clients' masked_value plus the masks in flight
\* (subtracted by the sender, not yet added by the peer) equals the wrapping
\* sum of all clients' value; the two sums agree whenever no push is in flight.
C11_ConservationUpToInFlight ==
    up = Ports =>
        WrappingAdd(SumOver(masked_value, AllClients), SumOver(InFlight, AllClients))
            = SumOver(value, AllClients)

\* C11 witness: under a reliable network a mask is in flight after an earlier
\* one was delivered, and the plain sums differ.
C11_Witness ==
    /\ up = Ports
    /\ \E p \in Ports :
          /\ interact[p].pc = "await_push"
          /\ interact[p].curr_collaborator # p
          /\ \E q \in Ports \ {p} : masked_value[q] # value[q]
    /\ SumOver(masked_value, AllClients) # SumOver(value, AllClients)

\* -------------------------------------- masks posted by callers from outside
\* Number of POST /maskbyadding requests callers from outside make to a client.
MaxPosts == 3

\* the deltas of those requests: any u32 (the route is "maskbyadding" / u32)
PostVals == {Small(7), <<Half \div 2, 0>>, MaxU32}

\* the requests made to client c, in the order they were issued
PostsTo(c) ==
    {s \in SeqsUpTo({[to |-> c, sent |-> Format(d), done |-> FALSE] : d \in PostVals},
                    MaxPosts) : s # <<>>}

\* clients as models::new_Client makes them, all listening, with requests
\* POST /maskbyadding/{delta} to one of them issued and none answered
InitInbound ==
    /\ up = Ports
    /\ value \in [Ports -> OrigVals]
    /\ masked_value = value
    /\ lock = [p \in Ports |-> "free"]
    /\ interact = [p \in Ports |-> IdleInteract]
    /\ client_ports = <<>>
    /\ server_lock = "free"
    /\ init = IdleInit
    /\ agg = IdleAgg
    /\ initialize_replies = <<>>
    /\ aggregate_replies = <<>>
    /\ mask_applied = [p \in Ports |-> FALSE]
    /\ undelivered = [p \in Ports |-> Zero]
    /\ posts \in UNION {PostsTo(c) : c \in Ports}
    /\ reads = [p \in Ports |-> <<>>]

\* handlers::mask_by_adding on the client request k addresses: waits for the
\* client's mutex, adds the delta parsed from the path and answers 200
mask_by_adding_direct(k) ==
    /\ ~posts[k].done
    /\ posts[k].to \in up
    /\ lock[posts[k].to] = "free"
    /\ LET masking_val == Parse(posts[k].sent)
           q == posts[k].to
       IN  IF masking_val[1]
           THEN /\ masked_value' = [masked_value EXCEPT
                                      ![q] = Added(masked_value[q], masking_val[2])]
                /\ mask_applied' = [mask_applied EXCEPT ![q] = TRUE]
                /\ reads' = [reads EXCEPT ![q] = <<>>]
           ELSE UNCHANGED <<masked_value, mask_applied, reads>>
    /\ posts' = [posts EXCEPT ![k].done = TRUE]
    /\ UNCHANGED <<up, value, lock, interact, undelivered, serverVars>>

\* the handlers serve the requests in any order
NextInbound == \E k \in 1..Len(posts) : mask_by_adding_direct(k)

SpecInbound == InitInbound /\ [][NextInbound]_vars

RECURSIVE PlusAnswered(_, _, _)
\* v plus the deltas of the answered requests k.. addressed to c, added in
\* the order the requests were issued
PlusAnswered(v, c, k) ==
    IF k > Len(posts) THEN v
    ELSE PlusAnswered(IF posts[k].done /\ posts[k].to = c
                      THEN WrappingAdd(v, Parse(posts[k].sent)[2]) ELSE v,
                      c, k + 1)

\* C12: in whatever order a client's mutex serializes the applyInboundMask
\* calls made to it, its masked_value is its initial value plus the deltas
\* of the answered calls, so every order ends in the same masked_value.
C12_InboundMasksCommute ==
    \A c \in Ports : masked_value[c] = PlusAnswered(value[c], c, 1)

\* C12 witness: three calls with three different deltas have all been answered.
C12_Witness ==
    /\ Len(posts) = 3
    /\ \A k \in 1..3 : posts[k].done
    /\ Cardinality({posts[k].sent : k \in 1..3}) = 3
    /\ masked_value[posts[1].to] # value[posts[1].to]


\* ------------------------------------------- clients called directly
\* The routes of a client are open to any caller (filters::client_ops), so
\* PUT /interact and GET /sharevalue can arrive without the server.  Here
\* every client has at most one PUT /interact waiting at its mutex when the
\* behaviour starts, all of them concurrent, and GET /sharevalue may arrive
\* at any moment.

\* longest list of peers in the body of a direct PUT /interact
MaxPeers == 2

\* the bodies of PUT /interact sent to p: lists of other clients
PeerLists(p) == {s \in SeqsUpTo(Ports \ {p}, MaxPeers) : Distinct(s)}

\* handlers::interact_with_others called with port_list, before lock().await
DirectRound(port_list) ==
    [IdleInteract EXCEPT !.pc = "lock", !.port_list = port_list, !.direct = TRUE]

InitClient ==
    /\ up = Ports
    /\ value \in [Ports -> OrigVals]
    /\ masked_value = value
    /\ lock = [p \in Ports |-> "free"]
    /\ interact \in [Ports -> {IdleInteract} \cup
                              UNION {{DirectRound(s) : s \in PeerLists(p)} : p \in Ports}]
    /\ \A p \in Ports : interact[p].pc = "lock" => interact[p].port_list \in PeerLists(p)
    /\ client_ports = EmptyList
    /\ server_lock = "free"
    /\ init = IdleInit
    /\ agg = IdleAgg
    /\ initialize_replies = <<>>
    /\ aggregate_replies = <<>>
    /\ mask_applied = [p \in Ports |-> FALSE]
    /\ undelivered = [p \in Ports |-> Zero]
    /\ posts = <<>>
    /\ reads = [p \in Ports |-> <<>>]

\* the waiting PUT /interact of client p takes p's mutex and runs to its
\* first .await or to its reply
InteractBeginDirect(p) ==
    /\ interact[p].pc = "lock"
    /\ lock[p] = "free"
    /\ InteractLoop(p, interact[p].port_list, masked_value[p])
    /\ UNCHANGED <<up, value, posts, undelivered, client_ports, server_lock, agg,
                   initialize_replies, aggregate_replies>>

\* handlers::share_val at client c for a caller that is not the server
share_val_direct(c) ==
    /\ c \in up
    /\ lock[c] = "free"
    /\ reads' = [reads EXCEPT ![c] = Format(masked_value[c])]
    /\ masked_value' = [masked_value EXCEPT ![c] = AfterShare(masked_value[c])]
    /\ UNCHANGED <<up, value, lock, interact, mask_applied, undelivered, posts,
                   serverVars>>

NextClient ==
    \/ \E p \in Ports : InteractBeginDirect(p)
    \/ \E p \in Ports : InteractResume(p)
    \/ \E p \in Ports, q \in Ports : mask_by_adding(p, q)
    \/ \E c \in Ports : share_val_direct(c)

SpecClient == InitClient /\ [][NextClient]_vars

\* C13: GET /sharevalue is a pure read.  A step in which a client returns a
\* body to a reader leaves every masked_value and every value as it was, and
\* a client whose masked_value was not assigned since its last read (by an
\* inbound mask or by a step of its own round) returns the same body again:
\* a read never returns a body different from the remembered one.
C13_ShareIsPureRead ==
    [][\A c \in Ports :
          (reads'[c] # <<>> /\ reads'[c] # reads[c])
             => /\ reads[c] = <<>>
                /\ reads'[c] = Format(masked_value[c])
                /\ masked_value' = masked_value
                /\ value' = value]_vars

\* a client that was masked has been read, is unchanged since, and can be
\* read again
C13_Witness ==
    \E c \in Ports :
        /\ reads[c] # <<>>
        /\ mask_applied[c]
        /\ masked_value[c] # value[c]
        /\ lock[c] = "free"
        /\ \E q \in Ports : interact[q].pc = "await_push"


\* ------------------------------------------------ orchestration by the server
\* the clients whose interact_with_others handler is running
Interacting == {p \in Ports : interact[p].pc # "idle"}

\* the server is inside the loop of handlers::initialize
InitializeInLoop == init.pc \in {"await_interact", "got_interact"}

\* C14: sequential orchestration.  During one /initialize the server sends
\* PUT /interact to the clients in the order of the request's port_list, one
\* at a time: the client it is at is the (i+1)-th of the request, the first
\* instruction goes to index 0 and each later one to the next index, only
\* after the previous one was answered and with no client interacting; at
\* most one client is interacting, and it is the one the server is waiting for.
C14_SequentialOrchestration ==
    /\ [](/\ Cardinality(Interacting) <= 1
          /\ \A p \in Interacting :
                init.pc = "await_interact" /\ init.curr_client = p
          /\ InitializeInLoop =>
                /\ init.i < Len(init.clients_list.port_list)
                /\ init.curr_client = init.clients_list.port_list[init.i + 1])
    /\ [][(init'.pc = "await_interact" /\ init.pc # "await_interact")
             => /\ Interacting = {}
                /\ \/ init.pc = "lock" /\ init'.i = 0
                   \/ init.pc = "got_interact" /\ init'.i = init.i + 1]_vars

\* the server has sent the instruction to the second client of a roster of
\* three distinct clients, and that client is in its round
C14_Witness ==
    /\ init.pc = "await_interact"
    /\ init.i = 1
    /\ Len(init.clients_list.port_list) = 3
    /\ init.clients_list.num_collaborators = 3
    /\ Distinct(init.clients_list.port_list)
    /\ init.curr_client = init.clients_list.port_list[2]
    /\ interact[init.curr_client].pc = "await_push"


\* ------------------------------------------------- order of a round's steps
\* the peers client p has still to process when its handler takes its next step
Remaining(p) ==
    IF interact[p].pc = "got_push" \/ interact[p].direct
    THEN interact[p].port_list
    ELSE init.collaborator_list.port_list

\* C15: step ordering inside a round.  A client starts the step for a peer
\* only when no POST of its own is outstanding; the peer is the first of the
\* peers still to process, so peers are taken in list order; the step
\* subtracts the mask at the sender while the peer's masked_value is still
\* untouched.  While the POST is outstanding the sender subtracts nothing
\* more, and the step in which the POST is answered is the one that adds the
\* mask at the peer, after the subtraction.
C15_StepOrdering ==
    [][\A p \in Ports :
        /\ (interact'[p].pc = "await_push" /\ interact[p].pc # "await_push")
             => /\ interact[p].pc \in {"idle", "lock", "got_push"}
                /\ Remaining(p) # <<>>
                /\ interact'[p].curr_collaborator = Head(Remaining(p))
                /\ interact'[p].port_list = Tail(Remaining(p))
                /\ masked_value'[p] =
                      WrappingSub(masked_value[p], interact'[p].masking_val)
                /\ \A q \in Ports \ {p} : masked_value'[q] = masked_value[q]
        /\ (interact[p].pc = "await_push" /\ interact[p].curr_collaborator # p)
             => /\ interact'[p].pc \in {"await_push", "got_push"}
                /\ masked_value'[p] = masked_value[p]
                /\ masked_value[p] =
                      WrappingSub(interact[p].before[1], interact[p].masking_val)
                /\ (interact'[p].pc = "got_push" /\ interact'[p].res = "Ok")
                     => masked_value'[interact[p].curr_collaborator] =
                           WrappingAdd(masked_value[interact[p].curr_collaborator],
                                       interact[p].masking_val)]_vars

\* a client has delivered the mask of its first peer and is waiting for the
\* POST to its second and last peer
C15_Witness ==
    \E p \in Ports :
        /\ interact[p].pc = "await_push"
        /\ interact[p].port_list = <<>>
        /\ Len(init.collaborator_list.port_list) = 2
        /\ interact[p].curr_collaborator = init.collaborator_list.port_list[2]
        /\ init.collaborator_list.port_list[1] \notin {p, interact[p].curr_collaborator}
        /\ mask_applied[init.collaborator_list.port_list[1]]
        /\ undelivered[p] = Zero


\* --------------------------------------------------- failure of /aggregate
\* C16: GET /aggregate fails rather than return a partial sum.  A reply
\* computed over a stored roster with a client that is not listening carries
\* no sum (the handler panicked; no reply carries the sum of the clients read
\* so far), and the step in which the handler fails leaves client_ports as it
\* was, ends the handler and releases the server's mutex.
C16_AggregateFailsWhole ==
    /\ [](\A k \in 1..Len(aggregate_replies) :
             (\E j \in 1..Len(aggregate_replies[k].roster) :
                  aggregate_replies[k].roster[j] \notin up)
                => /\ aggregate_replies[k].status = "panic"
                   /\ aggregate_replies[k].body = <<>>)
    /\ [][(/\ Len(aggregate_replies') = Len(aggregate_replies) + 1
           /\ aggregate_replies'[Len(aggregate_replies')].status = "panic")
             => /\ client_ports' = client_ports
                /\ aggregate_replies'[Len(aggregate_replies')].roster = client_ports
                /\ server_lock = "aggregate"
                /\ server_lock' = "free"
                /\ agg' = IdleAgg]_vars

\* /aggregate has failed at the second client of the roster after it had read
\* the first one, and the server's mutex is free again
C16_Witness ==
    /\ server_lock = "free"
    /\ agg.pc = "idle"
    /\ \E k \in 1..Len(aggregate_replies) :
          /\ aggregate_replies[k].status = "panic"
          /\ Len(aggregate_replies[k].roster) >= 2
          /\ aggregate_replies[k].roster[1] \in up
          /\ aggregate_replies[k].roster[2] \notin up
          /\ aggregate_replies[k].roster = client_ports


\* ------------------------------------------------------- concurrent rounds
\* client p holds its own mutex and waits for the answer of its POST to q,
\* which needs q's mutex
WaitsFor(p, q) ==
    /\ interact[p].pc = "await_push"
    /\ interact[p].curr_collaborator = q
    /\ lock[p] = "interact"

\* C17: concurrent rounds do not deadlock.  With every client listening, no
\* state is reachable in which two clients in their rounds wait for each
\* other, each holding its own mutex while its POST /maskbyadding waits for
\* the mutex of the other.
C17_NoMutualWait ==
    \A p \in Ports : \A q \in Ports \ {p} : ~(WaitsFor(p, q) /\ WaitsFor(q, p))


\* ------------------------------------------------------- reliable network
\* Every client is listening and every request is eventually answered: no
\* send() fails, and each handler that can take its next step does so.

InitRound ==
    /\ up = Ports
    /\ value \in [Ports -> OrigVals]
    /\ masked_value = value
    /\ lock = [p \in Ports |-> "free"]
    /\ interact = [p \in Ports |-> IdleInteract]
    /\ client_ports = <<>>
    /\ server_lock = "free"
    /\ init = IdleInit
    /\ agg = IdleAgg
    /\ initialize_replies = <<>>
    /\ aggregate_replies = <<>>
    /\ mask_applied = [p \in Ports |-> FALSE]
    /\ undelivered = [p \in Ports |-> Zero]
    /\ posts = <<>>
    /\ reads = [p \in Ports |-> <<>>]

\* the steps of the handlers of the server and of the clients
RoundSteps ==
    \/ InitializeStart
    \/ InitializeResume
    \/ \E p \in Ports : InteractBegin(p)
    \/ \E p \in Ports : InteractResume(p)
    \/ \E p \in Ports, q \in Ports : mask_by_adding(p, q)
    \/ AggregateStart
    \/ AggregateResume
    \/ \E c \in Ports : share_val(c)

NextRound ==
    \/ \E clients_list \in Requests : InitializeRequest(clients_list)
    \/ AggregateRequest
    \/ RoundSteps

SpecRound == InitRound /\ [][NextRound]_vars /\ WF_vars(RoundSteps)

\* a body of PUT /initialize with distinct clients and the count of its list
WellFormed(clients_list) ==
    /\ Distinct(clients_list.port_list)
    /\ clients_list.num_collaborators = Len(clients_list.port_list)

\* the last /initialize was answered with its list, which is the stored
\* roster, and nothing of the round is left: no client is in a round, every
\* client mutex and the server's mutex are free
RoundFinished ==
    /\ init.pc = "idle"
    /\ initialize_replies # <<>>
    /\ LET reply == initialize_replies[Len(initialize_replies)]
       IN  /\ reply.status = "ok"
           /\ reply.body = reply.req.port_list
           /\ client_ports = reply.req.port_list
    /\ Interacting = {}
    /\ \A p \in Ports : lock[p] = "free"
    /\ server_lock = "free"

\* C18: an aggregator-driven round terminates.  Under a reliable network a
\* /initialize with distinct clients and num_collaborators equal to the
\* length of its list always finishes: it is answered, every client is idle
\* again, every client mutex and the server's mutex are released, and
\* client_ports is the list given, in the same order.
C18_RoundTerminates ==
    (init.pc = "lock" /\ WellFormed(init.clients_list)) ~> RoundFinished

\* a round over three distinct clients has finished
C18_Witness ==
    /\ RoundFinished
    /\ Len(client_ports) = 3
    /\ WellFormed(initialize_replies[Len(initialize_replies)].req)
    /\ \A p \in Ports : mask_applied[p]


\* ------------------------------------------- /aggregate during /initialize
\* handlers::aggregate_val is reading the clients
AggregateReading == agg.pc \in {"await_share", "got_share"}

\* C19: /aggregate never observes a half-finished round.  While the handler
\* reads the clients it holds the server's mutex, no /initialize is inside
\* its loop, no client is in a round and no client mutex is held, so no mask
\* is between its subtraction and its addition; and a /aggregate requested
\* while a round over distinct, listening clients was in progress answers,
\* after that round, with the decimal wrapping sum of the roster's values.
C19_AggregateAfterRound ==
    /\ AggregateReading =>
          /\ server_lock = "aggregate"
          /\ init.pc \in {"idle", "lock"}
          /\ Interacting = {}
          /\ \A p \in Ports : lock[p] = "free"
    /\ \A k \in 1..Len(aggregate_replies) :
          LET r == aggregate_replies[k]
          IN  (r.during /\ r.rounds = r.after + 1 /\ FullRoundsOnly(r.rounds)) =>
                  /\ r.status = "ok"
                  /\ r.roster = initialize_replies[r.rounds].req.port_list
                  /\ r.body = Format(SumOver(value, r.roster))

\* a /aggregate that arrived during a round over three clients has answered
\* after it, and the round had changed a client's masked_value
C19_Witness ==
    \E k \in 1..Len(aggregate_replies) :
        LET r == aggregate_replies[k]
        IN  /\ r.during
            /\ r.rounds = r.after + 1
            /\ FullRoundsOnly(r.rounds)
            /\ r.status = "ok"
            /\ Len(r.roster) = 3
            /\ \E p \in Elems(r.roster) : masked_value[p] # value[p]


\* ---------------------------------------------------------- repeated rounds
\* The server and the clients are long-lived: /initialize can be called again
\* with another roster of the same clients.  Here every client is listening,
\* every /initialize has distinct clients and the count of its list, and
\* /aggregate is asked for between rounds.

\* the number of /initialize calls in a behaviour
MaxRounds == 2

InitRepeat ==
    /\ up = Ports
    /\ value \in [Ports -> OrigVals]
    /\ masked_value = value
    /\ lock = [p \in Ports |-> "free"]
    /\ interact = [p \in Ports |-> IdleInteract]
    /\ client_ports = <<>>
    /\ server_lock = "free"
    /\ init = IdleInit
    /\ agg = IdleAgg
    /\ initialize_replies = <<>>
    /\ aggregate_replies = <<>>
    /\ mask_applied = [p \in Ports |-> FALSE]
    /\ undelivered = [p \in Ports |-> Zero]
    /\ posts = <<>>
    /\ reads = [p \in Ports |-> <<>>]

\* PUT /initialize arrives with a well-formed body, after the answer to the
\* previous one and while no /aggregate is running
InitializeAgain(clients_list) ==
    /\ init.pc = "idle"
    /\ agg.pc = "idle"
    /\ Len(initialize_replies) < MaxRounds
    /\ WellFormed(clients_list)
    /\ init' = [IdleInit EXCEPT !.pc = "lock", !.clients_list = clients_list]
    /\ UNCHANGED <<up, value, outsideVars, clientVars, client_ports, server_lock, agg,
                   initialize_replies, aggregate_replies>>

\* GET /aggregate arrives after the answer to a /initialize
AggregateBetweenRounds ==
    /\ init.pc = "idle"
    /\ initialize_replies # <<>>
    /\ AggregateRequest

NextRepeat ==
    \/ \E clients_list \in Requests : InitializeAgain(clients_list)
    \/ InitializeStart
    \/ InitializeResume
    \/ \E p \in Ports : InteractBegin(p)
    \/ \E p \in Ports : InteractResume(p)
    \/ \E p \in Ports, q \in Ports : mask_by_adding(p, q)
    \/ AggregateBetweenRounds
    \/ AggregateStart
    \/ AggregateResume
    \/ \E c \in Ports : share_val(c)

SpecRepeat == InitRepeat /\ [][NextRepeat]_vars

\* C20: repeated rounds keep /aggregate correct for the current roster.
\* After /initialize calls that all completed, each over distinct listening
\* clients with every mask delivered, whatever their rosters, /aggregate
\* answers with the decimal wrapping sum of the values of the clients in
\* client_ports.
C20_RepeatedRoundsAggregate ==
    \A k \in 1..Len(aggregate_replies) :
        LET r == aggregate_replies[k]
        IN  (/\ r.after >= 1
             /\ r.rounds = r.after
             /\ \A j \in 1..r.after : FullRound(initialize_replies[j])) =>
                /\ r.status = "ok"
                /\ r.roster = initialize_replies[r.after].req.port_list
                /\ r.body = Format(SumOver(value, r.roster))

====
